---- MODULE Spec2Model ----
(***************************************************************************)
(* Autogenerated notification routes of the alerting notifier:             *)
(* pkg/services/ngalert/notifier/autogen_alertmanager.go.                  *)
(*                                                                         *)
(* newAutogeneratedRoute lists the notification settings of an             *)
(* organisation, validates and deduplicates them by fingerprint,           *)
(* generateRouteFromSettings builds the three-layer route tree and its     *)
(* hash, and AddToConfig puts the tree in front of the user-created        *)
(* routes of an Alertmanager configuration.                                *)
(***************************************************************************)
EXTENDS Integers, Sequences, FiniteSets, TLC

(***************************************************************************)
(* A 64-bit unsigned integer (data.Fingerprint, what Sum64 returns) is a   *)
(* sequence of 8 bytes, least significant byte first: the layout           *)
(* binary.LittleEndian.PutUint64 writes.  The running state of fnv.New64   *)
(* is the same integer in limbs of 20, 20, 20 and 4 bits, least            *)
(* significant first, so that no product exceeds the integers of the       *)
(* model checker.                                                          *)
(***************************************************************************)
WordBytes == 8

ByteBase == 256

NibbleBase == 16

\* 2^16
ShortBase == 65536

\* 2^12
LimbHighShift == 4096

\* 2^20
LimbBase == 1048576

\* FNV-1 64-bit offset basis 0xcbf29ce484222325, little-endian.
offset64 == <<37, 35, 34, 132, 228, 156, 242, 203>>

\* The FNV 64-bit prime is 2^40 + 0x1b3: two limbs up, plus 0x1b3.
prime64Low == 435

\* The separator byte written after every value.
Separator == 255

\* The zero value of data.Fingerprint.
ZeroFingerprint == <<0, 0, 0, 0, 0, 0, 0, 0>>

\* The limbs of the integer whose little-endian bytes are b.
Limbs(b) ==
    <<b[1] + ByteBase * b[2] + ShortBase * (b[3] % NibbleBase),
      (b[3] \div NibbleBase) + NibbleBase * b[4] + LimbHighShift * b[5],
      b[6] + ByteBase * b[7] + ShortBase * (b[8] % NibbleBase),
      b[8] \div NibbleBase>>

\* The little-endian bytes of the integer whose limbs are h.
Bytes(h) ==
    <<h[1] % ByteBase,
      (h[1] \div ByteBase) % ByteBase,
      (h[1] \div ShortBase) + NibbleBase * (h[2] % NibbleBase),
      (h[2] \div NibbleBase) % ByteBase,
      h[2] \div LimbHighShift,
      h[3] % ByteBase,
      (h[3] \div ByteBase) % ByteBase,
      (h[3] \div ShortBase) + NibbleBase * h[4]>>

RECURSIVE Xor(_, _, _)
\* Bitwise exclusive or of two naturals below 2^n.
Xor(a, b, n) ==
    IF n = 0 THEN 0
    ELSE (((a % 2) + (b % 2)) % 2) + 2 * Xor(a \div 2, b \div 2, n - 1)

\* Exclusive or of two naturals below 16, computed once.
XorNibble == [a \in 0..15 |-> [b \in 0..15 |-> Xor(a, b, 4)]]

\* Exclusive or of two bytes.
XorByte(a, b) ==
    XorNibble[a % NibbleBase][b % NibbleBase]
        + NibbleBase * XorNibble[a \div NibbleBase][b \div NibbleBase]

\* limb ^ c for the least significant limb and a byte c.
XorLow(limb, c) == (limb \div ByteBase) * ByteBase + XorByte(limb % ByteBase, c)

\* hash * prime64 modulo 2^64, then ^ c, given the products of the three
\* lower limbs with their carries.
WriteLimbs(h, c, t0, t1, t2) ==
    <<XorLow(t0 % LimbBase, c),
      t1 % LimbBase,
      t2 % LimbBase,
      (h[4] * prime64Low + h[2] + (t2 \div LimbBase)) % NibbleBase>>

WriteCarry2(h, c, t0, t1) ==
    WriteLimbs(h, c, t0, t1, h[3] * prime64Low + h[1] + (t1 \div LimbBase))

WriteCarry1(h, c, t0) == WriteCarry2(h, c, t0, h[2] * prime64Low + (t0 \div LimbBase))

\* One step of sum64.Write on the limbs h: hash *= prime64; hash ^= c.
WriteByte(h, c) == WriteCarry1(h, c, h[1] * prime64Low)

RECURSIVE WriteBytes(_, _)
\* The rest of a write, once the limbs after the first byte are known.
WriteRest(next, bs) == IF next[1] >= 0 THEN WriteBytes(next, bs) ELSE next

\* sum64.Write of a byte sequence, on the limbs h.
WriteBytes(h, bs) ==
    IF bs = <<>> THEN h
    ELSE WriteRest(WriteByte(h, Head(bs)), Tail(bs))

\* fnv.New64, Write(bs), Sum64.
Sum64(bs) == Bytes(WriteBytes(Limbs(offset64), bs))

\* a < b as unsigned 64-bit integers.
RECURSIVE LessFrom(_, _, _)
LessFrom(a, b, i) ==
    IF i = 0 THEN FALSE
    ELSE IF a[i] # b[i] THEN a[i] < b[i]
    ELSE LessFrom(a, b, i - 1)

FpLess(a, b) == LessFrom(a, b, WordBytes)

RECURSIVE HashInput(_)
\* What write(f) writes for every f of fp, in order: 8 little-endian bytes and
\* the byte 255.
HashInput(fp) ==
    IF fp = <<>> THEN <<>>
    ELSE Head(fp) \o <<Separator>> \o HashInput(Tail(fp))

\* calculateAutogeneratedRouteHash: the FNV-1 sum of the fingerprints of fp in
\* the order given.
calculateAutogeneratedRouteHash(fp) == Sum64(HashInput(fp))

(***************************************************************************)
(* models.NotificationSettings.  The receiver is required; the group-by    *)
(* labels and the mute time intervals are lists (nil and empty are the     *)
(* same list); an optional duration is a sequence of length 0 (nil) or 1.  *)
(* Durations are counted in seconds.                                       *)
(***************************************************************************)
NotificationSettings(receiver, groupBy, mute, wait, interval, repeat) ==
    [Receiver |-> receiver, GroupBy |-> groupBy, MuteTimeIntervals |-> mute,
     GroupWait |-> wait, GroupInterval |-> interval, RepeatInterval |-> repeat]

SlackDefault == NotificationSettings("slack", <<>>, <<>>, <<>>, <<>>, <<>>)

SlackWait == NotificationSettings("slack", <<>>, <<>>, <<30>>, <<>>, <<>>)

SlackMute == NotificationSettings("slack", <<"team">>, <<"night">>, <<>>, <<>>, <<>>)

EmailDefault == NotificationSettings("email", <<>>, <<>>, <<>>, <<>>, <<>>)

GhostRepeat == NotificationSettings("ghost", <<>>, <<>>, <<>>, <<>>, <<60>>)

\* The settings objects the store may hold.
SettingsUniverse == {SlackDefault, SlackWait, SlackMute, EmailDefault, GhostRepeat}

\* The settings objects the store may hold when configurations are merged.
MergedUniverse == {SlackWait, EmailDefault, GhostRepeat}

\* Two settings objects of different content and the same fingerprint: a
\* group-by label that is the empty string, a mute time interval that is.
SlackEmptyGroup == NotificationSettings("slack", <<"">>, <<>>, <<>>, <<>>, <<>>)

SlackEmptyMute == NotificationSettings("slack", <<>>, <<"">>, <<>>, <<>>, <<>>)

EmailIntervals == NotificationSettings("email", <<>>, <<>>, <<>>, <<120>>, <<240>>)

\* The settings objects the store may hold when trees of three keys are built.
TreeUniverse == {SlackDefault, SlackWait, SlackMute, EmailDefault, EmailIntervals}

\* The settings objects the store may hold when fingerprints collide.
CollisionUniverse == {SlackEmptyGroup, SlackEmptyMute, EmailDefault, GhostRepeat}

\* The receivers of the Alertmanager configuration the validator knows.
KnownReceivers == {"slack", "email"}

\* IsAllDefault: every optional field is unset.
IsAllDefault(s) ==
    /\ Len(s.GroupBy) = 0
    /\ Len(s.MuteTimeIntervals) = 0
    /\ s.GroupWait = <<>>
    /\ s.GroupInterval = <<>>
    /\ s.RepeatInterval = <<>>

\* The validator: TRUE when it returns no error.
Validate(s) == s.Receiver \in KnownReceivers

\* The bytes of the strings that occur in settings.
StringBytes(str) ==
    CASE str = ""      -> <<>>
      [] str = "slack" -> <<115, 108, 97, 99, 107>>
      [] str = "email" -> <<101, 109, 97, 105, 108>>
      [] str = "ghost" -> <<103, 104, 111, 115, 116>>
      [] str = "team"  -> <<116, 101, 97, 109>>
      [] str = "night" -> <<110, 105, 103, 104, 116>>

RECURSIVE StringsBytes(_)
\* Every string of a list, each followed by the separator.
StringsBytes(strs) ==
    IF strs = <<>> THEN <<>>
    ELSE StringBytes(Head(strs)) \o <<Separator>> \o StringsBytes(Tail(strs))

\* An optional duration: its 8 little-endian bytes when set, then the separator.
DurationBytes(d) ==
    IF d = <<>> THEN <<Separator>>
    ELSE <<d[1], 0, 0, 0, 0, 0, 0, 0, Separator>>

\* The content a fingerprint is taken of: the receiver and every optional field.
SettingsBytes(s) ==
    StringsBytes(<<s.Receiver>>) \o StringsBytes(s.GroupBy)
        \o DurationBytes(s.GroupWait) \o DurationBytes(s.RepeatInterval)
        \o DurationBytes(s.GroupInterval) \o StringsBytes(s.MuteTimeIntervals)

\* The fingerprint of every settings object, computed once.
FingerprintTable ==
    [s \in SettingsUniverse \cup TreeUniverse \cup CollisionUniverse |->
        Sum64(SettingsBytes(s))]

\* NotificationSettings.Fingerprint: a 64-bit hash of the content.
Fingerprint(s) == FingerprintTable[s]

HexDigits == <<"0", "1", "2", "3", "4", "5", "6", "7",
               "8", "9", "a", "b", "c", "d", "e", "f">>

RECURSIVE FingerprintStringFrom(_, _)
FingerprintStringFrom(fp, i) ==
    IF i = 0 THEN <<>>
    ELSE <<HexDigits[(fp[i] \div 16) + 1], HexDigits[(fp[i] % 16) + 1]>>
             \o FingerprintStringFrom(fp, i - 1)

\* data.Fingerprint.String: 16 hexadecimal digits, most significant first.
FingerprintString(fp) == FingerprintStringFrom(fp, WordBytes)

(***************************************************************************)
(* definitions.Route and the label names of the generated matchers.        *)
(***************************************************************************)
AutogeneratedRouteLabel == "__grafana_autogenerated__"

AutogeneratedRouteReceiverNameLabel == "__grafana_receiver__"

AutogeneratedRouteSettingsHashLabel == "__grafana_route_settings_hash__"

FolderTitleLabel == "grafana_folder"

AlertNameLabel == "alertname"

\* labels.NewMatcher(labels.MatchEqual, name, value): an equality matcher never
\* fails to compile.
NewMatcher(name, value) == [Type |-> "=", Name |-> name, Value |-> value]

\* A definitions.Route value; the fields a literal leaves out are zero.
Route(receiver, matchers, continue, groupBy, mute, wait, interval, repeat, routes) ==
    [Receiver |-> receiver, ObjectMatchers |-> matchers, Continue |-> continue,
     GroupByStr |-> groupBy, MuteTimeIntervals |-> mute, GroupWait |-> wait,
     GroupInterval |-> interval, RepeatInterval |-> repeat, Routes |-> routes]

\* The nil *definitions.Route: no route.
NoRoute == <<>>

\* autogeneratedRoute{}: no route, fingerprint 0.
EmptyAutogeneratedRoute == [Route |-> NoRoute, Fingerprint |-> ZeroFingerprint]

(***************************************************************************)
(* generateRouteFromSettings                                               *)
(***************************************************************************)
RECURSIVE Insert(_, _)
\* fp put in its place in the ascending sequence sorted.
Insert(sorted, fp) ==
    IF sorted = <<>> THEN <<fp>>
    ELSE IF FpLess(fp, Head(sorted)) THEN <<fp>> \o sorted
    ELSE <<Head(sorted)>> \o Insert(Tail(sorted), fp)

RECURSIVE SortFrom(_, _)
SortFrom(sorted, keys) ==
    IF keys = <<>> THEN sorted
    ELSE SortFrom(Insert(sorted, Head(keys)), Tail(keys))

\* The keys in descending numeric order.
SortDescending(keys) ==
    LET sorted == SortFrom(<<>>, keys)
    IN  [i \in DOMAIN sorted |-> sorted[Len(sorted) + 1 - i]]

\* slices.Sort(keys): ascending numeric order.
Sort(keys) == SortFrom(<<>>, keys)

\* The route of the first layer without a receiver.
autoGenRootNoReceiver(defaultReceiver) ==
    Route("", <<NewMatcher(AutogeneratedRouteLabel, "true")>>, FALSE,
          <<>>, <<>>, <<>>, <<>>, <<>>, <<>>)

\* The route of the first layer.
autoGenRoot(defaultReceiver) ==
    Route(defaultReceiver, <<NewMatcher(AutogeneratedRouteLabel, "true")>>, FALSE,
          <<>>, <<>>, <<>>, <<>>, <<>>, <<>>)

\* The second-layer route without Continue.
receiverRouteNoContinue(s) ==
    Route(s.Receiver,
          <<NewMatcher(AutogeneratedRouteReceiverNameLabel, s.Receiver)>>, FALSE,
          <<FolderTitleLabel, AlertNameLabel>>, <<>>, <<>>, <<>>, <<>>, <<>>)

\* The second-layer route grouped as the settings are.
receiverRouteSettingsGroupBy(s) ==
    Route(s.Receiver,
          <<NewMatcher(AutogeneratedRouteReceiverNameLabel, s.Receiver)>>, TRUE,
          s.GroupBy, <<>>, <<>>, <<>>, <<>>, <<>>)

\* The route of the second layer, created when a receiver is first met.
receiverRoute(s) ==
    Route(s.Receiver,
          <<NewMatcher(AutogeneratedRouteReceiverNameLabel, s.Receiver)>>, TRUE,
          <<FolderTitleLabel, AlertNameLabel>>, <<>>, <<>>, <<>>, <<>>, <<>>)

\* The third-layer route without the two intervals.
settingRouteNoIntervals(s) ==
    Route(s.Receiver,
          <<NewMatcher(AutogeneratedRouteSettingsHashLabel,
                       FingerprintString(Fingerprint(s)))>>, FALSE,
          s.GroupBy, s.MuteTimeIntervals, s.GroupWait, <<>>, <<>>, <<>>)

\* The third-layer route matched by the fingerprint of the receiver alone.
settingRouteReceiverHash(s) ==
    Route(s.Receiver,
          <<NewMatcher(AutogeneratedRouteSettingsHashLabel,
                       FingerprintString(Fingerprint(
                           NotificationSettings(s.Receiver, <<>>, <<>>, <<>>, <<>>, <<>>))))>>,
          FALSE, s.GroupBy, s.MuteTimeIntervals, s.GroupWait, s.GroupInterval,
          s.RepeatInterval, <<>>)

\* The route of the third layer, for settings that are not all default.
settingRoute(s) ==
    Route(s.Receiver,
          <<NewMatcher(AutogeneratedRouteSettingsHashLabel,
                       FingerprintString(Fingerprint(s)))>>, FALSE,
          s.GroupBy, s.MuteTimeIntervals, s.GroupWait, s.GroupInterval,
          s.RepeatInterval, <<>>)

\* No settings skip the third layer.
SkipsSettingRouteNever(s) == FALSE

\* Whether the loop skips the third layer for s.
SkipsSettingRoute(s) == IsAllDefault(s)

\* No receiver is found in receiverRoutes.
ReceiverIndexNone(receiverRoutes, receiver) == 0

\* The index in routes of the route receiverRoutes holds for receiver, 0 if none.
ReceiverIndex(receiverRoutes, receiver) ==
    IF receiver \in DOMAIN receiverRoutes THEN receiverRoutes[receiver] ELSE 0

RECURSIVE RouteLoop(_, _, _, _)
\* The loop over the keys: routes are the children of the root so far,
\* receiverRoutes maps a receiver name to the place of its route in routes.
RouteLoop(settings, keys, routes, receiverRoutes) ==
    IF keys = <<>> THEN routes
    ELSE LET s     == settings[Head(keys)]
             found == ReceiverIndex(receiverRoutes, s.Receiver)
             at    == IF found = 0 THEN Len(routes) + 1 ELSE found
             with  == IF found = 0 THEN Append(routes, receiverRoute(s)) ELSE routes
             index == IF found = 0
                      THEN [r \in DOMAIN receiverRoutes \cup {s.Receiver} |->
                               IF r = s.Receiver THEN at ELSE receiverRoutes[r]]
                      ELSE receiverRoutes
             next  == IF SkipsSettingRoute(s) THEN with
                      ELSE [with EXCEPT ![at].Routes = Append(@, settingRoute(s))]
         IN  RouteLoop(settings, Tail(keys), next, index)

\* The keys as maps.Keys returned them, not sorted.
BuildKeysUnsorted(keys) == keys

\* The keys in the order the build uses them.
BuildKeys(keys) == Sort(keys)

\* generateRouteFromSettings(defaultReceiver, settings), where mapKeys is the
\* order in which maps.Keys returned the keys of settings.
generateRouteFromSettings(defaultReceiver, settings, mapKeys) ==
    LET keys == BuildKeys(mapKeys)
    IN  [Route |-> <<[autoGenRoot(defaultReceiver) EXCEPT
                         !.Routes = RouteLoop(settings, keys, <<>>, <<>>)]>>,
         Fingerprint |-> calculateAutogeneratedRouteHash(keys)]

\* The sequences that hold every element of the set S exactly once.
KeyOrders(S) ==
    {q \in [1..Cardinality(S) -> S] : \A e \in S : \E i \in DOMAIN q : q[i] = e}

(***************************************************************************)
(* The environment: the rule store, the callers and the configurations.    *)
(***************************************************************************)
\* models.AlertRuleKey of the rules of the store.
RuleA == [OrgID |-> 1, UID |-> "a"]

RuleB == [OrgID |-> 1, UID |-> "b"]

RuleC == [OrgID |-> 2, UID |-> "c"]

RuleKeys == {RuleA, RuleB, RuleC}

RuleOrder == <<RuleA, RuleB, RuleC>>

Orgs == {1, 2}

\* The synthesis passes (calls of newAutogeneratedRoute), which may overlap.
Passes == {1, 2}

\* The nil *autogeneratedRoute.
NilAr == 0

DefaultReceivers == {"grafana-default-email", "slack"}

\* The errors ListNotificationSettings may return.
StoreErrors == {"database is locked", "context canceled"}

\* No error (nil); an error is the chain of its messages, outermost first.
NoError == <<>>

\* The message alone: the cause is dropped.
WrapDropsCause(message, e) == <<message>>

\* fmt.Errorf("<message>: %w", e)
Wrap(message, e) == <<message>> \o e

\* The most settings objects the store holds.
MaxObjects == 2

\* The most settings objects the store holds when configurations are merged.
MaxObjectsMerged == 2

\* The most settings objects the store holds when trees of three keys are built.
MaxObjectsTree == 3

\* The most calls of AddToConfig.
MaxAddToConfig == 3

RECURSIVE SumLen(_, _)
SumLen(lens, i) == IF i = 0 THEN 0 ELSE lens[RuleOrder[i]] + SumLen(lens, i - 1)

\* The store in which rule RuleOrder[i] holds the next lens[...] objects of flat.
SplitStore(lens, flat) ==
    [r \in RuleKeys |->
        LET i     == CHOOSE j \in DOMAIN RuleOrder : RuleOrder[j] = r
            first == SumLen(lens, i - 1)
        IN  [k \in 1..lens[r] |-> flat[first + k]]]

\* Every store content of at most n settings objects of universe.
Stores(universe, n) ==
    UNION {{SplitStore(lens, flat) :
               flat \in [1..SumLen(lens, Len(RuleOrder)) -> universe]} :
           lens \in {l \in [RuleKeys -> 0..n] : SumLen(l, Len(RuleOrder)) <= n}}

\* A route a user created: a pointer to it is the route itself.
UserRoute(receiver) ==
    Route(receiver, <<NewMatcher("team", receiver)>>, FALSE,
          <<>>, <<>>, <<>>, <<>>, <<>>, <<>>)

\* A pointer to a route: to the root a pass generated (pass # 0), or to a
\* user-created route.
GeneratedPointer(p) == [pass |-> p, route |-> <<>>]

UserPointer(route) == [pass |-> 0, route |-> <<route>>]

\* AlertmanagerConfig.Route of a configuration: nil, or the root route, whose
\* Routes are pointers.
RootOf(receiver, children) ==
    <<Route(receiver, <<>>, FALSE, <<"alertname">>, <<>>, <<>>, <<>>, <<>>,
            [i \in DOMAIN children |-> UserPointer(UserRoute(children[i]))])>>

ConfigRoots ==
    {NoRoute,
     RootOf("grafana-default-email", <<"pager", "email">>),
     RootOf("", <<"pager">>)}

Configs == {"A", "B"}

VARIABLES
    store,                 \* rule key -> the settings objects of the rule
    config,                \* configuration -> its root route, or NoRoute
    orgId,                 \* pass -> the organisation it synthesizes for
    defaultReceiver,       \* pass -> its defaultReceiver argument
    pc,                    \* pass -> "start", "collect" or "done"
    settings,              \* pass -> what ListNotificationSettings returned
    todo,                  \* pass -> the rules the range loop has not visited
    curRule,               \* pass -> the rule being visited (a set of <= 1)
    idx,                   \* pass -> objects of curRule already visited
    notificationSettings,  \* pass -> fingerprint -> settings kept
    validated,             \* pass -> number of calls of the validator
    logged,                \* pass -> the rules logged as invalid, in order
    result,                \* pass -> the autogeneratedRoute returned
    err,                   \* pass -> the error returned
    lastCall               \* the last call of AddToConfig and what it returned

vars == <<store, config, orgId, defaultReceiver, pc, settings, todo, curRule, idx,
          notificationSettings, validated, logged, result, err, lastCall>>

NoCall == [n |-> 0, ar |-> NilAr, cfg |-> "A", err |-> NoError]

\* The state before any call, for the given inputs.
InitWith(stores, orgIds, receivers, roots) ==
    /\ store \in stores
    /\ config \in [Configs -> roots]
    /\ orgId \in orgIds
    /\ defaultReceiver \in receivers
    /\ pc = [p \in Passes |-> "start"]
    /\ settings = [p \in Passes |-> <<>>]
    /\ todo = [p \in Passes |-> {}]
    /\ curRule = [p \in Passes |-> {}]
    /\ idx = [p \in Passes |-> 0]
    /\ notificationSettings = [p \in Passes |-> <<>>]
    /\ validated = [p \in Passes |-> 0]
    /\ logged = [p \in Passes |-> <<>>]
    /\ result = [p \in Passes |-> EmptyAutogeneratedRoute]
    /\ err = [p \in Passes |-> NoError]
    /\ lastCall = NoCall

(***************************************************************************)
(* newAutogeneratedRoute                                                   *)
(***************************************************************************)
\* The query without the organisation: every rule that has settings.
ListNotificationSettingsAllOrgs(content, org) ==
    [r \in {k \in RuleKeys : content[k] # <<>>} |-> content[r]]

\* store.ListNotificationSettings(ctx, orgId) for a store content: the rules of
\* the organisation that have settings.
ListNotificationSettings(content, org) ==
    [r \in {k \in RuleKeys : k.OrgID = org /\ content[k] # <<>>} |-> content[r]]

\* The query fails: the error is wrapped and returned with an empty result.
ListFails(p) ==
    /\ pc[p] = "start"
    /\ \E e \in StoreErrors :
          err' = [err EXCEPT ![p] = Wrap("failed to list alert rules", <<e>>)]
    /\ result' = [result EXCEPT ![p] = EmptyAutogeneratedRoute]
    /\ pc' = [pc EXCEPT ![p] = "done"]
    /\ UNCHANGED <<store, config, orgId, defaultReceiver, settings, todo, curRule,
                   idx, notificationSettings, validated, logged, lastCall>>

\* The query succeeds: the range loop over its result begins.
ListSucceeds(p) ==
    /\ pc[p] = "start"
    /\ settings' = [settings EXCEPT
                       ![p] = ListNotificationSettings(store, orgId[p])]
    /\ todo' = [todo EXCEPT ![p] = DOMAIN settings'[p]]
    /\ pc' = [pc EXCEPT ![p] = "collect"]
    /\ UNCHANGED <<store, config, orgId, defaultReceiver, curRule, idx,
                   notificationSettings, validated, logged, result, err, lastCall>>

\* The loop body without the validator's verdict.
KeepsInvalid(kept, setting) == Fingerprint(setting) \notin DOMAIN kept

\* The loop body with the test of the map inverted.
KeepsInverted(kept, setting) == Validate(setting) /\ Fingerprint(setting) \in DOMAIN kept

\* Whether the loop body keeps setting in a map that holds the keys of kept.
Keeps(kept, setting) == Validate(setting) /\ Fingerprint(setting) \notin DOMAIN kept

\* The loop body stores also what the validator rejected.
CollectedUnvalidated(kept, setting) ==
    [f \in DOMAIN kept \cup {Fingerprint(setting)} |->
        IF f \in DOMAIN kept THEN kept[f] ELSE setting]

\* The loop body without the test of the map: the last object seen is kept.
CollectedLastSeen(kept, setting) ==
    IF Validate(setting)
    THEN [f \in DOMAIN kept \cup {Fingerprint(setting)} |->
             IF f = Fingerprint(setting) THEN setting ELSE kept[f]]
    ELSE kept

\* The map after the loop body has run for setting.
Collected(kept, setting) ==
    IF Keeps(kept, setting)
    THEN [f \in DOMAIN kept \cup {Fingerprint(setting)} |->
             IF f = Fingerprint(setting) THEN setting ELSE kept[f]]
    ELSE kept

\* One run of the inner loop body, for object i of rule.
Visit(p, rule, i) ==
    LET setting == settings[p][rule][i]
    IN  /\ validated' = [validated EXCEPT ![p] = @ + 1]
        /\ logged' = [logged EXCEPT
                         ![p] = IF Validate(setting) THEN @ ELSE Append(@, rule)]
        /\ notificationSettings' =
               [notificationSettings EXCEPT ![p] = Collected(@, setting)]
        /\ curRule' = [curRule EXCEPT ![p] = {rule}]
        /\ idx' = [idx EXCEPT ![p] = i]

\* Whether the inner loop has objects of the current rule left.
InRule(p) == \E r \in curRule[p] : idx[p] < Len(settings[p][r])

\* The inner loop goes on to the next object of the current rule.
CollectNext(p) ==
    /\ pc[p] = "collect"
    /\ InRule(p)
    /\ \E r \in curRule[p] : Visit(p, r, idx[p] + 1)
    /\ UNCHANGED <<store, config, orgId, defaultReceiver, pc, settings, todo,
                   result, err, lastCall>>

\* The outer loop goes on to a rule not yet visited, in any order.
CollectRule(p) ==
    /\ pc[p] = "collect"
    /\ ~InRule(p)
    /\ \E r \in todo[p] :
          /\ todo' = [todo EXCEPT ![p] = @ \ {r}]
          /\ Visit(p, r, 1)
    /\ UNCHANGED <<store, config, orgId, defaultReceiver, pc, settings,
                   result, err, lastCall>>

\* The route is generated also from a map without keys.
SynthesizedAlways(receiver, kept, mapKeys) ==
    generateRouteFromSettings(receiver, kept, mapKeys)

\* What newAutogeneratedRoute returns after the loops, where mapKeys is the
\* order in which the keys of the map are enumerated.
Synthesized(receiver, kept, mapKeys) ==
    IF DOMAIN kept = {} THEN EmptyAutogeneratedRoute
    ELSE generateRouteFromSettings(receiver, kept, mapKeys)

\* The loops are over: the route is generated and returned, and the locals of
\* the loops are gone.
Generate(p) ==
    /\ pc[p] = "collect"
    /\ ~InRule(p)
    /\ todo[p] = {}
    /\ \E mapKeys \in KeyOrders(DOMAIN notificationSettings[p]) :
          result' = [result EXCEPT
                        ![p] = Synthesized(defaultReceiver[p],
                                           notificationSettings[p], mapKeys)]
    /\ pc' = [pc EXCEPT ![p] = "done"]
    /\ settings' = [settings EXCEPT ![p] = <<>>]
    /\ curRule' = [curRule EXCEPT ![p] = {}]
    /\ idx' = [idx EXCEPT ![p] = 0]
    /\ UNCHANGED <<store, config, orgId, defaultReceiver, todo,
                   notificationSettings, validated, logged, err, lastCall>>

\* The errors labels.NewMatcher may return.
HelperErrors == {"invalid matcher"}

\* Whether the loop of generateRouteFromSettings calls labels.NewMatcher for
\* key i of keys: for the branch when the receiver was not met before, for the
\* leaf when the settings are not all default.
CallsNewMatcher(kept, keys, i) ==
    \/ \A j \in 1..(i - 1) : kept[keys[j]].Receiver # kept[keys[i]].Receiver
    \/ ~IsAllDefault(kept[keys[i]])

\* The points at which generateRouteFromSettings may fail: 0 for the matcher of
\* the root, i for a matcher of key i.
FailurePoints(kept, keys) ==
    {0} \cup {i \in DOMAIN keys : CallsNewMatcher(kept, keys, i)}

\* The error is returned as the helper gave it.
CreateFailedUnwrapped(e) == e

\* fmt.Errorf("failed to create autogenerated route: %w", err)
CreateFailed(e) == Wrap("failed to create autogenerated route", e)

\* The route built before the failure is returned.
FailedResultPartial(receiver, kept, keys, i) ==
    [Route |-> <<[autoGenRoot(receiver) EXCEPT
                     !.Routes = RouteLoop(kept, SubSeq(keys, 1, i - 1), <<>>, <<>>)]>>,
     Fingerprint |-> ZeroFingerprint]

\* What newAutogeneratedRoute returns with the error when the build failed at
\* point i: autogeneratedRoute{}, as generateRouteFromSettings did.
FailedResult(receiver, kept, keys, i) == EmptyAutogeneratedRoute

\* The loops are over and a call of labels.NewMatcher in
\* generateRouteFromSettings fails: the error is wrapped and returned with an
\* empty result.
GenerateFails(p) ==
    /\ pc[p] = "collect"
    /\ ~InRule(p)
    /\ todo[p] = {}
    /\ DOMAIN notificationSettings[p] # {}
    /\ \E mapKeys \in KeyOrders(DOMAIN notificationSettings[p]), e \in HelperErrors :
          \E i \in FailurePoints(notificationSettings[p], BuildKeys(mapKeys)) :
              /\ result' = [result EXCEPT
                               ![p] = FailedResult(defaultReceiver[p],
                                                   notificationSettings[p],
                                                   BuildKeys(mapKeys), i)]
              /\ err' = [err EXCEPT ![p] = CreateFailed(<<e>>)]
    /\ pc' = [pc EXCEPT ![p] = "done"]
    /\ settings' = [settings EXCEPT ![p] = <<>>]
    /\ curRule' = [curRule EXCEPT ![p] = {}]
    /\ idx' = [idx EXCEPT ![p] = 0]
    /\ UNCHANGED <<store, config, orgId, defaultReceiver, todo,
                   notificationSettings, validated, logged, lastCall>>

(***************************************************************************)
(* autogeneratedRoute.AddToConfig                                          *)
(***************************************************************************)
\* Only the nil pointer counts as empty.
IsEmptyArNilOnly(ar) == ar = NilAr

\* Whether ar is nil or holds no route.
IsEmptyAr(ar) == ar = NilAr \/ result[ar].Route = NoRoute

RootMissing == <<"invalid Alertmanager configuration. The root route does not exist">>

\* No check of the root route.
AddToConfigErrorNever(ar, c) == NoError

\* The test of the generated route comes before the test of the root route.
AddToConfigErrorAfterEmpty(ar, c) ==
    IF IsEmptyAr(ar) THEN NoError
    ELSE IF config[c] = NoRoute THEN RootMissing ELSE NoError

\* The error AddToConfig returns.
AddToConfigError(ar, c) == IF config[c] = NoRoute THEN RootMissing ELSE NoError

\* Whether AddToConfig combines the routes.
Combines(ar, c) == config[c] # NoRoute /\ ~IsEmptyAr(ar)

\* An empty receiver of the root is not passed on: the generated root keeps
\* its default receiver.
CombinedReceiverDefaulting(ar, c) ==
    IF config[c][1].Receiver = "" THEN result[ar].Route[1].Receiver
    ELSE config[c][1].Receiver

\* The receiver the generated root gets.
CombinedReceiver(ar, c) == config[c][1].Receiver

\* The generated root added after the user-created routes.
CombinedRoutesAppended(ar, c) == config[c][1].Routes \o <<GeneratedPointer(ar)>>

\* A generated root that is already a child is taken out before it is added.
CombinedRoutesReplacing(ar, c) ==
    <<GeneratedPointer(ar)>>
        \o SelectSeq(config[c][1].Routes, LAMBDA ptr : ptr # GeneratedPointer(ar))

\* The child routes of the root after the generated root is added.
CombinedRoutes(ar, c) == <<GeneratedPointer(ar)>> \o config[c][1].Routes

AddToConfig(ar, c) ==
    /\ lastCall.n < MaxAddToConfig
    /\ ar # NilAr => pc[ar] = "done" /\ err[ar] = NoError
    /\ lastCall' = [n |-> lastCall.n + 1, ar |-> ar, cfg |-> c,
                    err |-> AddToConfigError(ar, c)]
    /\ IF Combines(ar, c)
       THEN /\ result' = [result EXCEPT
                             ![ar].Route[1].Receiver = CombinedReceiver(ar, c)]
            /\ config' = [config EXCEPT ![c][1].Routes = CombinedRoutes(ar, c)]
       ELSE UNCHANGED <<result, config>>
    /\ UNCHANGED <<store, orgId, defaultReceiver, pc, settings, todo, curRule, idx,
                   notificationSettings, validated, logged, err>>

(***************************************************************************)
(* Store changes and further calls                                         *)
(***************************************************************************)
\* The store contents a change may lead to: rule a holds one valid object, two
\* valid objects or one invalid object, the other rules hold none.
RebuildStores ==
    {[r \in RuleKeys |-> IF r = RuleA THEN objects ELSE <<>>] :
        objects \in {<<SlackWait>>, <<EmailDefault, SlackWait>>, <<GhostRepeat>>}}

\* The rules of the store are written by their owners at any time.
ChangeStore ==
    /\ \E st \in RebuildStores \ {store} : store' = st
    /\ UNCHANGED <<config, orgId, defaultReceiver, pc, settings, todo, curRule, idx,
                   notificationSettings, validated, logged, result, err, lastCall>>

\* The map of an earlier call is taken up again.
ReinvokedMapKept(p) == notificationSettings[p]

\* make(map[data.Fingerprint]models.NotificationSettings): the map a call
\* begins with.
ReinvokedMap(p) == <<>>

\* A pointer of a configuration once the caller has dropped the
\* autogeneratedRoute of pass p: the route it points to, which no call of
\* AddToConfig can reach any more.
Dropped(ptr, p) == IF ptr.pass = p THEN UserPointer(result[p].Route[1]) ELSE ptr

\* The caller of pass p, which has returned, calls newAutogeneratedRoute
\* again: every local of the call is new.
Reinvoke(p) ==
    /\ pc[p] = "done"
    /\ pc' = [pc EXCEPT ![p] = "start"]
    /\ notificationSettings' = [notificationSettings EXCEPT ![p] = ReinvokedMap(p)]
    /\ validated' = [validated EXCEPT ![p] = 0]
    /\ logged' = [logged EXCEPT ![p] = <<>>]
    /\ result' = [result EXCEPT ![p] = EmptyAutogeneratedRoute]
    /\ err' = [err EXCEPT ![p] = NoError]
    /\ config' = [c \in Configs |->
                     IF config[c] = NoRoute THEN NoRoute
                     ELSE <<[config[c][1] EXCEPT
                               !.Routes = [i \in DOMAIN @ |-> Dropped(@[i], p)]]>>]
    /\ UNCHANGED <<store, orgId, defaultReceiver, settings, todo, curRule, idx,
                   lastCall>>

\* The route a pointer of a configuration points to.
Deref(ptr) == IF ptr.pass = 0 THEN ptr.route[1] ELSE result[ptr.pass].Route[1]

(***************************************************************************)
(* Specifications                                                          *)
(***************************************************************************)
\* Synthesis for every store content of at most MaxObjects objects; the second
\* pass ranges over the organisations and the default receivers.
InitSynthesis ==
    InitWith(Stores(SettingsUniverse, MaxObjects),
             {o \in [Passes -> Orgs] : o[1] = 1},
             {d \in [Passes -> DefaultReceivers] : d[1] = "grafana-default-email"},
             {RootOf("grafana-default-email", <<"pager", "email">>)})

NextSynthesis ==
    \E p \in Passes :
        \/ ListFails(p)
        \/ ListSucceeds(p)
        \/ CollectNext(p)
        \/ CollectRule(p)
        \/ Generate(p)

SpecSynthesis == InitSynthesis /\ [][NextSynthesis]_vars

\* Synthesis for every store content of at most MaxObjects objects of
\* CollisionUniverse, in which two objects of different content have the same
\* fingerprint.
InitCollision ==
    InitWith(Stores(CollisionUniverse, MaxObjects),
             {o \in [Passes -> Orgs] : o[1] = 1},
             {d \in [Passes -> DefaultReceivers] : d[1] = "grafana-default-email"},
             {RootOf("grafana-default-email", <<"pager", "email">>)})

SpecCollision == InitCollision /\ [][NextSynthesis]_vars

\* Synthesis for every store content of at most MaxObjectsTree objects of
\* TreeUniverse, in rule a; pass 1 is for organisation 1 with any default
\* receiver, pass 2 for organisation 2, which has no settings.
InitTree ==
    InitWith({st \in Stores(TreeUniverse, MaxObjectsTree) :
                 st[RuleB] = <<>> /\ st[RuleC] = <<>>},
             {[p \in Passes |-> p]},
             {d \in [Passes -> DefaultReceivers] : d[2] = "grafana-default-email"},
             {RootOf("grafana-default-email", <<"pager", "email">>)})

SpecTree == InitTree /\ [][NextSynthesis]_vars

\* Synthesis and merge: the store holds at most MaxObjectsMerged objects of
\* MergedUniverse, in rule a; both
\* passes are for organisation 1; configuration B has a root with an empty
\* receiver, configuration A any root or none.
Init ==
    /\ InitWith({st \in Stores(MergedUniverse, MaxObjectsMerged) :
                    Len(st[RuleA]) <= MaxObjectsMerged /\ st[RuleB] = <<>> /\ st[RuleC] = <<>>},
                {[p \in Passes |-> 1]},
                {d \in [Passes -> DefaultReceivers] : d[1] = "grafana-default-email"},
                ConfigRoots)
    /\ config["B"] = RootOf("", <<"pager">>)

Next ==
    \/ \E p \in Passes :
          \/ ListFails(p)
          \/ ListSucceeds(p)
          \/ CollectNext(p)
          \/ CollectRule(p)
          \/ Generate(p)
    \/ \E ar \in Passes \cup {NilAr}, c \in Configs : AddToConfig(ar, c)

Spec == Init /\ [][Next]_vars

\* Store changes, repeated calls and merges: the store holds one of the
\* contents of RebuildStores; pass 1 is for
\* organisation 1, pass 2 for organisation 2, both with the default receiver
\* slack; configuration A has no root, configuration B a root with an empty
\* receiver.
InitRebuild ==
    /\ InitWith(RebuildStores,
                {[p \in Passes |-> p]},
                {[p \in Passes |-> "slack"]},
                {NoRoute, RootOf("", <<"pager">>)})
    /\ config["A"] = NoRoute
    /\ config["B"] # NoRoute

NextRebuild ==
    \/ ChangeStore
    \/ \E p \in Passes :
          \/ ListFails(p)
          \/ ListSucceeds(p)
          \/ CollectNext(p)
          \/ CollectRule(p)
          \/ Generate(p)
          \/ Reinvoke(p)
    \/ \E ar \in Passes \cup {NilAr}, c \in Configs : AddToConfig(ar, c)

SpecRebuild == InitRebuild /\ [][NextRebuild]_vars

\* Synthesis in which labels.NewMatcher may fail: the store holds at most
\* MaxObjectsMerged objects of MergedUniverse in rule a; pass 1 is for
\* organisation 1, pass 2 for organisation 2.
InitHelperErrors ==
    InitWith({st \in Stores(MergedUniverse, MaxObjectsMerged) :
                 st[RuleB] = <<>> /\ st[RuleC] = <<>>},
             {[p \in Passes |-> p]},
             {d \in [Passes -> DefaultReceivers] : d[2] = "grafana-default-email"},
             {RootOf("grafana-default-email", <<"pager", "email">>)})

NextHelperErrors ==
    \E p \in Passes :
        \/ ListFails(p)
        \/ ListSucceeds(p)
        \/ CollectNext(p)
        \/ CollectRule(p)
        \/ Generate(p)
        \/ GenerateFails(p)

SpecHelperErrors == InitHelperErrors /\ [][NextHelperErrors]_vars

(***************************************************************************)
(* Properties                                                              *)
(***************************************************************************)
\* A pass has returned without error.
Returned(p) == pc[p] = "done" /\ err[p] = NoError

\* A pass has returned a route.
Built(p) == Returned(p) /\ result[p].Route # NoRoute

\* The root, the second layer and the third layer of the route of a built pass.
RootRoute(p) == result[p].Route[1]

Branches(p) == RootRoute(p).Routes

Leaves(p) ==
    UNION {{<<b, l>> : l \in DOMAIN Branches(p)[b].Routes} : b \in DOMAIN Branches(p)}

Leaf(p, bl) == Branches(p)[bl[1]].Routes[bl[2]]

\* The settings objects listed for the organisation of pass p.
Listed(p) ==
    UNION {{store[r][i] : i \in DOMAIN store[r]} :
           r \in {k \in RuleKeys : k.OrgID = orgId[p]}}

\* The settings objects a pass has kept.
Kept(p) == {notificationSettings[p][f] : f \in DOMAIN notificationSettings[p]}

\* C1: two passes that built from maps of the same content with the same
\* default receiver, each enumerating the keys of its map in an order of its
\* own, returned the same route tree and the same aggregate fingerprint.
C1_Determinism ==
    \A p, q \in Passes :
        (/\ Built(p) /\ Built(q)
         /\ notificationSettings[p] = notificationSettings[q]
         /\ defaultReceiver[p] = defaultReceiver[q])
        => result[p] = result[q]

\* Two passes built from the same map of two keys or more.
C1_Witness ==
    /\ Built(1) /\ Built(2)
    /\ notificationSettings[1] = notificationSettings[2]
    /\ defaultReceiver[1] = defaultReceiver[2]
    /\ Cardinality(DOMAIN notificationSettings[1]) >= 2
    /\ Len(Branches(1)) >= 2
    /\ result[1] = result[2]

\* A step is a call AddToConfig(ar, c).
Called(ar, c) ==
    /\ lastCall'.n = lastCall.n + 1
    /\ lastCall'.ar = ar
    /\ lastCall'.cfg = c

\* C2: a call with a route on a configuration whose root has M children leaves
\* the root with M + 1 children: the generated root first, then the M previous
\* children in their order; the generated root has the receiver of the root.
C2_MergePreservesSiblings ==
    [][\A ar \in Passes, c \in Configs :
          (Called(ar, c) /\ config[c] # NoRoute /\ result[ar].Route # NoRoute)
          => /\ lastCall'.err = NoError
             /\ Len(config'[c][1].Routes) = Len(config[c][1].Routes) + 1
             /\ config'[c][1].Routes[1] = GeneratedPointer(ar)
             /\ \A i \in DOMAIN config[c][1].Routes :
                   config'[c][1].Routes[i + 1] = config[c][1].Routes[i]
             /\ result'[ar].Route[1].Receiver = config[c][1].Receiver
             /\ config'[c][1].Receiver = config[c][1].Receiver]_vars

\* A route was added in front of the two children of a root.
C2_Witness ==
    /\ lastCall.n >= 1
    /\ lastCall.ar # NilAr
    /\ lastCall.err = NoError
    /\ result[lastCall.ar].Route # NoRoute
    /\ Len(config[lastCall.cfg][1].Routes) = 3
    /\ config[lastCall.cfg][1].Routes[1] = GeneratedPointer(lastCall.ar)
    /\ Deref(config[lastCall.cfg][1].Routes[1]).Receiver = "grafana-default-email"
    /\ defaultReceiver[lastCall.ar] = "slack"

\* C3: a call on a configuration without a root route returns an error and
\* changes neither the configurations nor the generated routes.
C3_MissingRootNoMutation ==
    [][\A ar \in Passes \cup {NilAr}, c \in Configs :
          (Called(ar, c) /\ config[c] = NoRoute)
          => /\ lastCall'.err # NoError
             /\ config' = config
             /\ result' = result]_vars

\* A call with a built route on a configuration without a root returned the
\* error, and the route still has the receiver the build gave it.
C3_Witness ==
    /\ lastCall.n >= 1
    /\ lastCall.ar # NilAr
    /\ config[lastCall.cfg] = NoRoute
    /\ lastCall.err = RootMissing
    /\ result[lastCall.ar].Route # NoRoute
    /\ result[lastCall.ar].Route[1].Receiver = defaultReceiver[lastCall.ar]

\* C4: a call with a nil pointer or with no route, on a configuration that has
\* a root route, returns no error and leaves every configuration and every
\* generated route as it was.
C4_EmptyMergeNoOp ==
    [][\A ar \in Passes \cup {NilAr}, c \in Configs :
          (/\ Called(ar, c)
           /\ config[c] # NoRoute
           /\ (ar = NilAr \/ result[ar].Route = NoRoute))
          => /\ lastCall'.err = NoError
             /\ config' = config
             /\ result' = result]_vars

\* A pass that returned no route was added to a configuration with a root.
C4_Witness ==
    /\ lastCall.n >= 1
    /\ lastCall.ar # NilAr
    /\ Returned(lastCall.ar)
    /\ result[lastCall.ar].Route = NoRoute
    /\ config[lastCall.cfg] # NoRoute
    /\ Len(config[lastCall.cfg][1].Routes) = 2
    /\ lastCall.err = NoError

\* C5: after a pass, every valid settings object listed for its organisation,
\* however often and in whichever rules it occurs, has exactly one entry in the
\* collected set; at any time no two entries hold settings of the same
\* fingerprint.
C5_DedupIdempotence ==
    \A p \in Passes :
        /\ Returned(p) =>
              \A s \in Listed(p) :
                  Validate(s) =>
                      Cardinality({f \in DOMAIN notificationSettings[p] :
                                      notificationSettings[p][f] = s}) = 1
        /\ \A f, g \in DOMAIN notificationSettings[p] :
              f # g => Fingerprint(notificationSettings[p][f])
                           # Fingerprint(notificationSettings[p][g])

\* The number of times s is listed for the organisation of pass p.
Occurrences(p, s) ==
    Cardinality({ri \in RuleKeys \X (1..MaxObjects + 1) :
                    /\ ri[1].OrgID = orgId[p]
                    /\ ri[2] \in DOMAIN store[ri[1]]
                    /\ store[ri[1]][ri[2]] = s})

\* A pass collected one entry from two identical objects of two rules.
C5_Witness ==
    \E p \in Passes :
        /\ Returned(p)
        /\ store[RuleA] # <<>> /\ store[RuleB] # <<>>
        /\ store[RuleA][1] = store[RuleB][1]
        /\ Validate(store[RuleA][1])
        /\ orgId[p] = 1
        /\ Occurrences(p, store[RuleA][1]) >= 2
        /\ Kept(p) = {store[RuleA][1]}

\* The branches of a built pass whose receiver is r.
BranchesOf(p, r) == {b \in DOMAIN Branches(p) : Branches(p)[b].Receiver = r}

\* The value of the only matcher of a route.
MatcherValue(route) == route.ObjectMatchers[1].Value

\* C6: in a built tree, settings that are all default have no leaf: no route of
\* the third layer matches their fingerprint; their receiver has a branch; and
\* the branch of a receiver whose settings are all all-default has no child.
C6_AllDefaultSuppression ==
    \A p \in Passes :
        Built(p) =>
            /\ \A f \in DOMAIN notificationSettings[p] :
                  IsAllDefault(notificationSettings[p][f]) =>
                      /\ BranchesOf(p, notificationSettings[p][f].Receiver) # {}
                      /\ \A bl \in Leaves(p) :
                            MatcherValue(Leaf(p, bl)) # FingerprintString(f)
            /\ \A b \in DOMAIN Branches(p) :
                  (\A s \in Kept(p) :
                      s.Receiver = Branches(p)[b].Receiver => IsAllDefault(s))
                  => Branches(p)[b].Routes = <<>>

\* A tree built from all-default settings and other settings of one receiver:
\* the branch has the one leaf of the other settings.
C6_Witness ==
    \E p \in Passes :
        /\ Built(p)
        /\ Kept(p) = {SlackDefault, SlackWait}
        /\ Len(Branches(p)) = 1
        /\ Len(Branches(p)[1].Routes) = 1
        /\ MatcherValue(Branches(p)[1].Routes[1]) = FingerprintString(Fingerprint(SlackWait))

\* C7: in a built tree the root has Continue false, every route of the second
\* layer Continue true and every route of the third layer Continue false.
C7_ContinueFlags ==
    \A p \in Passes :
        Built(p) =>
            /\ RootRoute(p).Continue = FALSE
            /\ \A b \in DOMAIN Branches(p) : Branches(p)[b].Continue = TRUE
            /\ \A bl \in Leaves(p) : Leaf(p, bl).Continue = FALSE

\* A tree with two branches and a leaf.
C7_Witness ==
    \E p \in Passes :
        /\ Built(p)
        /\ Len(Branches(p)) = 2
        /\ Leaves(p) # {}

\* The keys of a set in ascending order.
Ascending(S) ==
    CHOOSE q \in KeyOrders(S) :
        \A i, j \in DOMAIN q : i < j => FpLess(q[i], q[j])

\* C8 as stated: calculateAutogeneratedRouteHash returns the same for every
\* order of the same fingerprints.
C8_HashOrderIndependent ==
    \A p \in Passes :
        \A q1, q2 \in KeyOrders(DOMAIN notificationSettings[p]) :
            calculateAutogeneratedRouteHash(q1) = calculateAutogeneratedRouteHash(q2)

\* C8, amended: the aggregate fingerprint a pass returns is the hash of the keys
\* of its map in ascending order, whatever the order in which the keys of the
\* map were enumerated: generateRouteFromSettings sorts them before it calls
\* calculateAutogeneratedRouteHash, which hashes in the order given.
C8_BuildHashOrderIndependent ==
    \A p \in Passes :
        Built(p) =>
            result[p].Fingerprint =
                calculateAutogeneratedRouteHash(Ascending(DOMAIN notificationSettings[p]))

\* A pass returned the aggregate of two keys or more, whose hash in the
\* descending order is another.
C8_Witness ==
    \E p \in Passes :
        /\ Built(p)
        /\ Cardinality(DOMAIN notificationSettings[p]) >= 2
        /\ \E q \in KeyOrders(DOMAIN notificationSettings[p]) :
              calculateAutogeneratedRouteHash(q) # result[p].Fingerprint

\* C9: a pass whose query failed returned the error of the store wrapped, with
\* an empty result; it called no validator, kept no settings and logged nothing.
C9_StoreFailureFatal ==
    \A p \in Passes :
        err[p] # NoError =>
            /\ pc[p] = "done"
            /\ Len(err[p]) = 2
            /\ err[p][1] = "failed to list alert rules"
            /\ err[p][2] \in StoreErrors
            /\ result[p] = EmptyAutogeneratedRoute
            /\ validated[p] = 0
            /\ logged[p] = <<>>
            /\ notificationSettings[p] = <<>>

\* The query of a pass failed by a cancelled context although the store holds
\* valid settings for its organisation.
C9_Witness ==
    \E p \in Passes :
        /\ err[p] = <<"failed to list alert rules", "context canceled">>
        /\ \E s \in Listed(p) : Validate(s)
        /\ result[p].Route = NoRoute

\* C10: a pass whose query succeeded returns no error; it validated every
\* listed object, kept every valid one and no invalid one, and logged one
\* entry for every invalid object.
C10_ValidationRecoverable ==
    \A p \in Passes :
        /\ validated[p] > 0 => err[p] = NoError
        /\ (pc[p] = "done" /\ err[p] = NoError) =>
              /\ Kept(p) = {s \in Listed(p) : Validate(s)}
              /\ validated[p] =
                     Cardinality({ri \in RuleKeys \X (1..MaxObjects + 1) :
                                     /\ ri[1].OrgID = orgId[p]
                                     /\ ri[2] \in DOMAIN store[ri[1]]})
              /\ Len(logged[p]) =
                     Cardinality({ri \in RuleKeys \X (1..MaxObjects + 1) :
                                     /\ ri[1].OrgID = orgId[p]
                                     /\ ri[2] \in DOMAIN store[ri[1]]
                                     /\ ~Validate(store[ri[1]][ri[2]])})

\* A pass kept the valid object that follows an invalid one in the same rule,
\* and built a route from it.
C10_Witness ==
    \E p \in Passes, r \in RuleKeys :
        /\ Built(p)
        /\ r.OrgID = orgId[p]
        /\ Len(store[r]) >= 2
        /\ ~Validate(store[r][1])
        /\ Validate(store[r][2])
        /\ store[r][2] \in Kept(p)
        /\ logged[p] = <<r>>

\* C11: a pass whose loops end with nothing kept, because nothing is listed for
\* its organisation or because every listed object is invalid, returns no
\* route, the fingerprint zero and no error.
C11_EmptyInput ==
    [][\A p \in Passes :
          (/\ pc[p] = "collect" /\ pc'[p] = "done"
           /\ \A s \in Listed(p) : ~Validate(s))
          => /\ notificationSettings[p] = <<>>
             /\ result'[p].Route = NoRoute
             /\ result'[p].Fingerprint = ZeroFingerprint
             /\ err'[p] = NoError]_vars

\* A pass validated the objects listed for its organisation, found every one
\* invalid and returned the empty result without error.
C11_Witness ==
    \E p \in Passes :
        /\ Returned(p)
        /\ Listed(p) # {}
        /\ \A s \in Listed(p) : ~Validate(s)
        /\ validated[p] >= 1
        /\ Len(logged[p]) = validated[p]
        /\ result[p] = EmptyAutogeneratedRoute

\* C12: a call of AddToConfig that returns no error changes, in the
\* configuration it is given, only the list of child routes of the root: the
\* other fields of the root are as before, and every route that was a child of
\* the root is still a child and has every field as before.
C12_MergeFrame ==
    [][\A ar \in Passes \cup {NilAr}, c \in Configs :
          (Called(ar, c) /\ lastCall'.err = NoError)
          => /\ [config'[c][1] EXCEPT !.Routes = <<>>]
                    = [config[c][1] EXCEPT !.Routes = <<>>]
             /\ \A child \in {config[c][1].Routes[i] :
                                  i \in DOMAIN config[c][1].Routes} :
                   /\ \E j \in DOMAIN config'[c][1].Routes :
                         config'[c][1].Routes[j] = child
                   /\ Deref(child)' = Deref(child)]_vars

\* C13: two passes for the same organisation with the same default receiver,
\* whose steps interleave in any way over the same store content, return the
\* same route tree and the same aggregate fingerprint.
C13_ConcurrentSameOrg ==
    \A p, q \in Passes :
        (/\ Returned(p) /\ Returned(q)
         /\ orgId[p] = orgId[q]
         /\ defaultReceiver[p] = defaultReceiver[q])
        => /\ result[p].Route = result[q].Route
           /\ result[p].Fingerprint = result[q].Fingerprint

\* The keys of the map of pass p whose settings name receiver r.
KeysOf(p, r) ==
    {f \in DOMAIN notificationSettings[p] : notificationSettings[p][f].Receiver = r}

\* The keys of the map of pass p whose string is the matcher value of a route.
KeysAt(p, route) ==
    {f \in DOMAIN notificationSettings[p] : FingerprintString(f) = MatcherValue(route)}

\* C14: in a built tree, of two branches the earlier is the one whose receiver
\* has the smaller least key; of two leaves of a branch the earlier is the one
\* of the smaller key.
C14_ChildOrdering ==
    \A p \in Passes :
        Built(p) =>
            /\ \A b1, b2 \in DOMAIN Branches(p) :
                  b1 < b2 =>
                      \E f1 \in KeysOf(p, Branches(p)[b1].Receiver) :
                          \A f2 \in KeysOf(p, Branches(p)[b2].Receiver) : FpLess(f1, f2)
            /\ \A bl1, bl2 \in Leaves(p) :
                  (bl1[1] = bl2[1] /\ bl1[2] < bl2[2]) =>
                      \E f1 \in KeysAt(p, Leaf(p, bl1)), f2 \in KeysAt(p, Leaf(p, bl2)) :
                          FpLess(f1, f2)

\* A tree of two branches, one of them with two leaves, built from three keys.
C14_Witness ==
    \E p \in Passes :
        /\ Built(p)
        /\ Cardinality(DOMAIN notificationSettings[p]) = 3
        /\ Len(Branches(p)) = 2
        /\ \E b \in DOMAIN Branches(p) : Len(Branches(p)[b].Routes) = 2

\* C15: in a built tree the receivers of the branches are the receivers the
\* settings of the map name, and every one of them is on one branch only.
C15_OneBranchPerReceiver ==
    \A p \in Passes :
        Built(p) =>
            /\ {Branches(p)[b].Receiver : b \in DOMAIN Branches(p)}
                   = {s.Receiver : s \in Kept(p)}
            /\ \A s \in Kept(p) : Cardinality(BranchesOf(p, s.Receiver)) = 1

\* A tree built from two keys of one receiver and one key of another: two
\* branches, none for the default receiver.
C15_Witness ==
    \E p \in Passes :
        /\ Built(p)
        /\ Cardinality(DOMAIN notificationSettings[p]) = 3
        /\ Cardinality(KeysOf(p, "slack")) = 2
        /\ Cardinality(KeysOf(p, "email")) = 1
        /\ Len(Branches(p)) = 2
        /\ BranchesOf(p, defaultReceiver[p]) = {}

\* The leaves of a built tree whose matcher value is the fingerprint of s.
LeavesOf(p, s) ==
    {bl \in Leaves(p) : MatcherValue(Leaf(p, bl)) = FingerprintString(Fingerprint(s))}

\* C16: in a built tree every settings object of the map that is not all
\* default has exactly one leaf, under the branch of its receiver, whose only
\* matcher is the settings hash label = its fingerprint as a string, whose
\* receiver is its receiver and whose group-by, mute time intervals, group
\* wait, group interval and repeat interval are its own; there are as many
\* leaves as settings objects that are not all default.
C16_LeafContent ==
    \A p \in Passes :
        Built(p) =>
            /\ \A s \in Kept(p) :
                  ~IsAllDefault(s) =>
                      /\ Cardinality(LeavesOf(p, s)) = 1
                      /\ \A bl \in LeavesOf(p, s) :
                            /\ Branches(p)[bl[1]].Receiver = s.Receiver
                            /\ Leaf(p, bl).ObjectMatchers =
                                   <<NewMatcher(AutogeneratedRouteSettingsHashLabel,
                                                FingerprintString(Fingerprint(s)))>>
                            /\ Leaf(p, bl).Receiver = s.Receiver
                            /\ Leaf(p, bl).GroupByStr = s.GroupBy
                            /\ Leaf(p, bl).MuteTimeIntervals = s.MuteTimeIntervals
                            /\ Leaf(p, bl).GroupWait = s.GroupWait
                            /\ Leaf(p, bl).GroupInterval = s.GroupInterval
                            /\ Leaf(p, bl).RepeatInterval = s.RepeatInterval
            /\ Cardinality(Leaves(p)) =
                   Cardinality({s \in Kept(p) : ~IsAllDefault(s)})

\* A tree built from settings with intervals, settings with a group-by and
\* mute time intervals, and all-default settings: two leaves.
C16_Witness ==
    \E p \in Passes :
        /\ Built(p)
        /\ Kept(p) = {EmailIntervals, SlackMute, SlackDefault}
        /\ Cardinality(Leaves(p)) = 2
        /\ \E bl \in LeavesOf(p, EmailIntervals) :
              /\ Leaf(p, bl).GroupInterval = <<120>>
              /\ Leaf(p, bl).RepeatInterval = <<240>>
        /\ \E bl \in LeavesOf(p, SlackMute) :
              Leaf(p, bl).MuteTimeIntervals = <<"night">>

\* C17: in a built tree every branch has one matcher, the receiver name label =
\* its receiver, is grouped by the folder title label and the alert name label
\* whatever the group-by of the settings, and has no mute time interval, group
\* wait, group interval or repeat interval.
C17_BranchContent ==
    \A p \in Passes :
        Built(p) =>
            \A b \in DOMAIN Branches(p) :
                /\ Branches(p)[b].ObjectMatchers =
                       <<NewMatcher(AutogeneratedRouteReceiverNameLabel,
                                    Branches(p)[b].Receiver)>>
                /\ KeysOf(p, Branches(p)[b].Receiver) # {}
                /\ Branches(p)[b].GroupByStr = <<FolderTitleLabel, AlertNameLabel>>
                /\ Branches(p)[b].MuteTimeIntervals = <<>>
                /\ Branches(p)[b].GroupWait = <<>>
                /\ Branches(p)[b].GroupInterval = <<>>
                /\ Branches(p)[b].RepeatInterval = <<>>

\* A tree whose only settings have a group-by, mute time intervals and
\* intervals of their own: the branches have none of them.
C17_Witness ==
    \E p \in Passes :
        /\ Built(p)
        /\ Kept(p) = {SlackMute, EmailIntervals}
        /\ Len(Branches(p)) = 2
        /\ \A b \in DOMAIN Branches(p) :
              /\ Branches(p)[b].GroupByStr = <<"grafana_folder", "alertname">>
              /\ Branches(p)[b].RepeatInterval = <<>>
              /\ Len(Branches(p)[b].Routes) = 1

\* C18: a pass that returns with settings kept returns one root route, whose
\* only matcher is the autogenerated label = "true" and whose receiver is the
\* default receiver of the call; no pass returns more than one root.
C18_RootConstruction ==
    \A p \in Passes :
        /\ Len(result[p].Route) <= 1
        /\ (Returned(p) /\ Kept(p) # {}) =>
              /\ Len(result[p].Route) = 1
              /\ RootRoute(p).ObjectMatchers =
                     <<NewMatcher(AutogeneratedRouteLabel, "true")>>
              /\ RootRoute(p).Receiver = defaultReceiver[p]

\* A pass called with the default receiver slack built a root with that
\* receiver over a branch of the receiver slack.
C18_Witness ==
    \E p \in Passes :
        /\ Built(p)
        /\ defaultReceiver[p] = "slack"
        /\ RootRoute(p).Receiver = "slack"
        /\ RootRoute(p).ObjectMatchers[1].Name = "__grafana_autogenerated__"
        /\ BranchesOf(p, "slack") # {}
        /\ Len(Branches(p)) = 2

\* C19: the map a pass returns with has the key f exactly when an object listed
\* for its organisation is valid and has the fingerprint f; at any time the
\* value under a key f of the map of a pass has the fingerprint f.
C19_CollectorKeys ==
    \A p \in Passes :
        /\ Returned(p) =>
              DOMAIN notificationSettings[p]
                  = {Fingerprint(s) : s \in {l \in Listed(p) : Validate(l)}}
        /\ \A f \in DOMAIN notificationSettings[p] :
              Fingerprint(notificationSettings[p][f]) = f

\* A pass returned with one key for two valid objects of different content
\* and the same fingerprint, held in two rules.
C19_Witness ==
    \E p \in Passes :
        /\ Returned(p)
        /\ Listed(p) = {SlackEmptyGroup, SlackEmptyMute}
        /\ store[RuleA] # <<>> /\ store[RuleB] # <<>>
        /\ DOMAIN notificationSettings[p] = {Fingerprint(SlackEmptyMute)}
        /\ Kept(p) = {SlackEmptyMute}

\* C20: in every step of a pass, a key the map holds keeps its value, whatever
\* the object the step visits.
C20_FirstSeenWins ==
    [][\A p \in Passes :
          \A f \in DOMAIN notificationSettings[p] :
              /\ f \in DOMAIN notificationSettings'[p]
              /\ notificationSettings'[p][f] = notificationSettings[p][f]]_vars

\* A pass has visited two valid objects of the same fingerprint and of
\* different content, in one rule, and holds the first.
C20_Witness ==
    \E p \in Passes, r \in RuleKeys :
        /\ r \in curRule[p]
        /\ idx[p] = 2
        /\ settings[p][r][1] # settings[p][r][2]
        /\ Validate(settings[p][r][2])
        /\ Fingerprint(settings[p][r][1]) = Fingerprint(settings[p][r][2])
        /\ notificationSettings[p][Fingerprint(settings[p][r][2])] = settings[p][r][1]

\* The valid settings objects among those a call listed.
ValidIn(listed) ==
    {s \in UNION {{listed[r][i] : i \in DOMAIN listed[r]} : r \in DOMAIN listed} :
        Validate(s)}

\* The map from the fingerprints of the objects of S to the objects.
MapOf(S) ==
    [f \in {Fingerprint(s) : s \in S} |-> CHOOSE s \in S : Fingerprint(s) = f]

\* What a call that listed the given settings returns when nothing else ever
\* happened: the route of the valid objects listed.
FromScratch(listed, receiver) ==
    Synthesized(receiver, MapOf(ValidIn(listed)),
                Ascending({Fingerprint(s) : s \in ValidIn(listed)}))

\* C21: whatever store changes, calls and merges came before, a call returns
\* the route of the valid objects it listed and of its default receiver,
\* built from a map that holds them and nothing else.
C21_RebuildFromScratch ==
    [][\A p \in Passes :
          (pc[p] = "collect" /\ pc'[p] = "done")
          => /\ notificationSettings[p] = MapOf(ValidIn(settings[p]))
             /\ result'[p] = FromScratch(settings[p], defaultReceiver[p])
             /\ err'[p] = NoError]_vars

\* A call returned a route although an earlier result of the same caller is
\* in a configuration with the receiver the merge gave it, and the store
\* holds other objects than that result was built from.
C21_Witness ==
    \E c \in Configs :
        /\ Built(1)
        /\ RootRoute(1).Receiver = defaultReceiver[1]
        /\ config[c] # NoRoute
        /\ Len(config[c][1].Routes) = 2
        /\ config[c][1].Routes[1].pass = 0
        /\ Deref(config[c][1].Routes[1]).Receiver = ""
        /\ Deref(config[c][1].Routes[1]).ObjectMatchers = RootRoute(1).ObjectMatchers
        /\ Deref(config[c][1].Routes[1]).Routes # RootRoute(1).Routes

\* Everything a pass holds.
PassState(p) ==
    <<pc[p], settings[p], todo[p], curRule[p], idx[p], notificationSettings[p],
      validated[p], logged[p], result[p], err[p]>>

\* What pass p returns when it runs alone: the route of the valid objects the
\* store holds for its organisation and of its default receiver.
Alone(p) ==
    Synthesized(defaultReceiver[p], MapOf({s \in Listed(p) : Validate(s)}),
                Ascending({Fingerprint(s) : s \in {l \in Listed(p) : Validate(l)}}))

\* C22: of two passes for different organisations, a step of one leaves
\* everything the other holds as it was, and each returns what it returns when
\* it runs alone, however their steps interleave.
C22_IndependentOrgs ==
    [][\A p, q \in Passes :
          orgId[p] # orgId[q] =>
              /\ PassState(p)' # PassState(p) => PassState(q)' = PassState(q)
              /\ (pc[p] = "collect" /\ pc'[p] = "done") => result'[p] = Alone(p)]_vars

\* Two passes for different organisations, each of which has a valid object of
\* its own in the store, returned different routes.
C22_Witness ==
    /\ orgId[1] # orgId[2]
    /\ Built(1) /\ Built(2)
    /\ Kept(1) # Kept(2)
    /\ result[1] = Alone(1)
    /\ result[2] = Alone(2)
    /\ result[1].Fingerprint # result[2].Fingerprint

\* C23: a pass that kept settings and returns an error returns no route and
\* the fingerprint zero, and the error is the error of the helper wrapped with
\* the stage that failed, the creation of the route.
C23_HelperErrorsPropagate ==
    [][\A p \in Passes :
          (pc[p] = "collect" /\ pc'[p] = "done" /\ err'[p] # NoError)
          => /\ result'[p].Route = NoRoute
             /\ result'[p].Fingerprint = ZeroFingerprint
             /\ Len(err'[p]) = 2
             /\ err'[p][1] = "failed to create autogenerated route"
             /\ err'[p][2] \in HelperErrors]_vars

\* A pass that kept the settings of two receivers, one of them with a leaf,
\* returned the wrapped error of the helper and no route.
C23_Witness ==
    \E p \in Passes :
        /\ pc[p] = "done"
        /\ err[p] = <<"failed to create autogenerated route", "invalid matcher">>
        /\ Kept(p) = {SlackWait, EmailDefault}
        /\ result[p] = EmptyAutogeneratedRoute

\* C24: two passes over the same store content for the same organisation, each
\* visiting the rules in an order of its own, collect the same map, keys and
\* values, also when objects of the store have the same fingerprint.
C24_IterationOrderIndependent ==
    \A p, q \in Passes :
        (Returned(p) /\ Returned(q) /\ orgId[p] = orgId[q])
        => notificationSettings[p] = notificationSettings[q]

\* C25: a call with a nil pointer or with no route returns the error of the
\* missing root when the configuration has no root route, and returns no error
\* only when the configuration has one; it changes nothing either way.
C25_ErrorBeforeNoOp ==
    [][\A ar \in Passes \cup {NilAr}, c \in Configs :
          (Called(ar, c) /\ (ar = NilAr \/ result[ar].Route = NoRoute))
          => /\ config[c] = NoRoute => lastCall'.err = RootMissing
             /\ lastCall'.err = NoError => config[c] # NoRoute
             /\ config' = config /\ result' = result]_vars

\* A pass that returned no route, and then the nil pointer, were added to a
\* configuration without a root: the last call returned the error.
C25_Witness ==
    /\ lastCall.n >= 2
    /\ lastCall.ar = NilAr
    /\ config[lastCall.cfg] = NoRoute
    /\ lastCall.err = RootMissing
    /\ \E p \in Passes : Returned(p) /\ result[p].Route = NoRoute

\* The root route of a configuration with the routes its pointers point to.
Expanded(c) ==
    [config[c][1] EXCEPT !.Routes = [i \in DOMAIN @ |-> Deref(@[i])]]

\* The root of configuration c has the generated root of pass p in front of
\* user-created routes only.
MergedOnce(p, c) ==
    /\ config[c] # NoRoute
    /\ config[c][1].Routes # <<>>
    /\ config[c][1].Routes[1] = GeneratedPointer(p)
    /\ \A i \in 2..Len(config[c][1].Routes) : config[c][1].Routes[i].pass = 0

\* C26: when two passes built from the same settings, with whichever default
\* receivers, have been added to two configurations that were equal, the
\* configurations are equal again, the routes they point to included.
C26_DefaultReceiverOverwritten ==
    \A p, q \in Passes, ca, cb \in Configs :
        (/\ p # q /\ ca # cb
         /\ Built(p) /\ Built(q)
         /\ notificationSettings[p] = notificationSettings[q]
         /\ MergedOnce(p, ca) /\ MergedOnce(q, cb)
         /\ [config[ca][1] EXCEPT !.Routes = Tail(@)]
                = [config[cb][1] EXCEPT !.Routes = Tail(@)])
        => Expanded(ca) = Expanded(cb)

\* Two passes with different default receivers were added to two equal
\* configurations whose root has the empty receiver: both generated roots have
\* the empty receiver.
C26_Witness ==
    /\ defaultReceiver[1] # defaultReceiver[2]
    /\ Built(1) /\ Built(2)
    /\ MergedOnce(1, "A") /\ MergedOnce(2, "B")
    /\ config["A"][1].Receiver = ""
    /\ RootRoute(1).Receiver = ""
    /\ RootRoute(2).Receiver = ""
    /\ Expanded("A") = Expanded("B")

\* C27: two passes that built from maps of the same keys returned the same
\* aggregate fingerprint whatever their default receivers, and the same route
\* when their default receivers are the same.
C27_FingerprintOfKeySet ==
    \A p, q \in Passes :
        (/\ Built(p) /\ Built(q)
         /\ DOMAIN notificationSettings[p] = DOMAIN notificationSettings[q])
        => /\ result[p].Fingerprint = result[q].Fingerprint
           /\ defaultReceiver[p] = defaultReceiver[q]
                  => result[p].Route = result[q].Route

\* The generated roots among the children of the root of a configuration, the
\* times the generated root of a pass is among them, and the user-created
\* children in their order.
GeneratedCount(c) ==
    Cardinality({i \in DOMAIN config[c][1].Routes : config[c][1].Routes[i].pass # 0})

GeneratedTimes(c, ar) ==
    Cardinality({i \in DOMAIN config[c][1].Routes :
                    config[c][1].Routes[i] = GeneratedPointer(ar)})

UserPart(c) == SelectSeq(config[c][1].Routes, LAMBDA ptr : ptr.pass = 0)

\* C28: every call with a route on a configuration with a root adds one child:
\* the root has one generated root more, the generated root of the call is
\* there once more than before also when it was there already, the generated
\* roots come first and the user-created children follow in their order.
C28_MergeAccumulates ==
    [][\A ar \in Passes, c \in Configs :
          (Called(ar, c) /\ config[c] # NoRoute /\ result[ar].Route # NoRoute)
          => /\ GeneratedCount(c)' = GeneratedCount(c) + 1
             /\ GeneratedTimes(c, ar)' = GeneratedTimes(c, ar) + 1
             /\ Len(config'[c][1].Routes) = GeneratedCount(c)' + Len(UserPart(c))
             /\ \A i \in 1..Len(UserPart(c)) :
                   config'[c][1].Routes[GeneratedCount(c)' + i] = UserPart(c)[i]]_vars

\* The same generated root was added three times to a configuration with two
\* children: five children, the three generated roots first.
C28_Witness ==
    \E c \in Configs, p \in Passes :
        /\ config[c] # NoRoute
        /\ lastCall.n = 3
        /\ Len(config[c][1].Routes) = 5
        /\ GeneratedTimes(c, p) = 3
        /\ config[c][1].Routes[4] = UserPointer(UserRoute("pager"))
        /\ config[c][1].Routes[5] = UserPointer(UserRoute("email"))

\* C29: the generated root in front of the children of the root of a
\* configuration has the receiver of that root, whatever was added to other
\* configurations since.
C29_MergedConfigStable ==
    \A c \in Configs :
        (/\ config[c] # NoRoute
         /\ config[c][1].Routes # <<>>
         /\ config[c][1].Routes[1].pass # 0)
        => Deref(config[c][1].Routes[1]).Receiver = config[c][1].Receiver

\* C30: in a built tree every leaf has the string of a key of the map as the
\* value of its matcher, and the overrides of the settings under that key; no
\* two leaves of the tree have the same value.
C30_LeafMatchersDistinct ==
    \A p \in Passes :
        Built(p) =>
            /\ \A bl \in Leaves(p) :
                  \E f \in DOMAIN notificationSettings[p] :
                      /\ Leaf(p, bl).ObjectMatchers[1].Name = AutogeneratedRouteSettingsHashLabel
                      /\ MatcherValue(Leaf(p, bl)) = FingerprintString(f)
                      /\ Leaf(p, bl).Receiver = notificationSettings[p][f].Receiver
                      /\ Leaf(p, bl).GroupByStr = notificationSettings[p][f].GroupBy
                      /\ Leaf(p, bl).GroupWait = notificationSettings[p][f].GroupWait
                      /\ Leaf(p, bl).GroupInterval = notificationSettings[p][f].GroupInterval
            /\ \A bl1, bl2 \in Leaves(p) :
                  bl1 # bl2 => MatcherValue(Leaf(p, bl1)) # MatcherValue(Leaf(p, bl2))

\* A tree with three leaves, two of them under one branch.
C30_Witness ==
    \E p \in Passes :
        /\ Built(p)
        /\ Cardinality(Leaves(p)) = 3
        /\ Len(Branches(p)) = 2
        /\ Cardinality({MatcherValue(Leaf(p, bl)) : bl \in Leaves(p)}) = 3

====
